---------------------------- MODULE Spec2Model ----------------------------
(***************************************************************************)
(* Survey dashboard: the CSV normalizer (parseSurveyCSV), the HTTP route   *)
(* GET /api/survey and the dashboard component (SurveyVisualization).      *)
(*                                                                         *)
(* A string is a sequence of characters.  A character is a one-element     *)
(* TLA+ string, except that the literals "First Name" and "Submitted Date" *)
(* are atomic tokens: a cell equals the literal exactly when it is the     *)
(* one-token sequence.  Indices of strings and arrays are 0-based in the   *)
(* operators that model JavaScript calls, as in the source.  In the        *)
(* dashboard the words the code searches for ("Agree", "Disagree",         *)
(* "Response", "ID") are atomic tokens as well, and no other token         *)
(* contains one of them.                                                   *)
(***************************************************************************)
EXTENDS Integers, Sequences, FiniteSets, TLC

VARIABLES
    files,        \* the _data directory: filename -> contents, or Unreadable
    filename,     \* argument of the latest parseSurveyCSV call
    results,      \* results.data of that call (the rows Papa.parse returned)
    parseResult,  \* what that call returned or threw
    request,      \* the type parameter of the latest GET /api/survey
    response,     \* the response the route gave to it
    readLog,      \* the files the route read while handling it
    callLog,      \* the arguments of the parseSurveyCSV calls made so far
    returned,     \* filename -> what the first call on it returned or threw
    selectedSurvey,   \* useState: 'opening' | 'closing'
    data,             \* useState: the held records
    error,            \* useState: a message, or null
    loading,          \* useState
    sortedQuestions,  \* useState: the ranked question list
    executiveSummary, \* useState: a summary, or null
    isSwitching,      \* useState
    effectPending,    \* the effect of [selectedSurvey] is queued
    fetching,         \* the survey type of the fetch in flight, or NoParam
    fetched,          \* what the latest fetch of loadData came back with
    questions,        \* the const questions of the latest loadData
    loadedSurvey      \* the survey type whose fetch gave the held records

\* the state of the server side
serverVars ==
    <<files, filename, results, parseResult, request, response, readLog,
      callLog, returned>>

\* the state of the component
dashVars ==
    <<selectedSurvey, data, error, loading, sortedQuestions,
      executiveSummary, isSwitching, effectPending, fetching, fetched,
      questions, loadedSurvey>>

vars == <<serverVars, dashVars>>

----------------------------------------------------------------------------
(* Characters *)

Quote == "\""
Delim == ","
Newline == "\n"
Space == " "
FirstName == "First Name"
SubmittedDate == "Submitted Date"

\* what String.prototype.trim removes
WhiteSpace == {" ", "\n", "\t", "\r"}

----------------------------------------------------------------------------
(* JavaScript string primitives *)

Min2(a, b) == IF a <= b THEN a ELSE b
Max2(a, b) == IF a >= b THEN a ELSE b
Clamp(i, n) == IF i < 0 THEN 0 ELSE IF i > n THEN n ELSE i

\* s[i], undefined outside the string
CharAt(s, i) == IF i >= 0 /\ i < Len(s) THEN s[i + 1] ELSE "undefined"

\* s.substring(a, b)
Substring(s, a, b) ==
    LET x == Clamp(a, Len(s))
        y == Clamp(b, Len(s))
    IN  SubSeq(s, Min2(x, y) + 1, Max2(x, y))

\* s.indexOf(c, from) for a one-character c
RECURSIVE IndexOf(_, _, _)
IndexOf(s, c, from) ==
    IF from >= Len(s) THEN -1
    ELSE IF from >= 0 /\ s[from + 1] = c THEN from
    ELSE IndexOf(s, c, from + 1)

\* the number of whitespace characters s starts with
RECURSIVE LeadingSpaces(_, _)
LeadingSpaces(s, i) ==
    IF i > Len(s) \/ s[i] \notin WhiteSpace THEN i - 1
    ELSE LeadingSpaces(s, i + 1)

\* the number of whitespace characters s ends with
RECURSIVE TrailingSpaces(_, _)
TrailingSpaces(s, i) ==
    IF i < 1 \/ s[i] \notin WhiteSpace THEN Len(s) - i
    ELSE TrailingSpaces(s, i - 1)

\* s.trim()
Trim(s) ==
    LET lead == LeadingSpaces(s, 1)
    IN  IF lead = Len(s) THEN <<>>
        ELSE SubSeq(s, lead + 1, Len(s) - TrailingSpaces(s, Len(s)))

RECURSIVE SplitFrom(_, _, _)
SplitFrom(s, sep, from) ==
    LET at == IndexOf(s, sep, from)
    IN  IF at = -1 THEN <<Substring(s, from, Len(s))>>
        ELSE <<Substring(s, from, at)>> \o SplitFrom(s, sep, at + 1)

\* s.split(sep) for a one-character sep
Split(s, sep) == SplitFrom(s, sep, 0)

\* value.replace(/""/g, '"'): every escaped quote becomes one quote
RECURSIVE Unescape(_)
Unescape(s) ==
    IF Len(s) < 2 THEN s
    ELSE IF s[1] = Quote /\ s[2] = Quote
         THEN <<Quote>> \o Unescape(SubSeq(s, 3, Len(s)))
         ELSE <<s[1]>> \o Unescape(Tail(s))

----------------------------------------------------------------------------
(* Papa.parse(fileContents, {header: false, skipEmptyLines: false,         *)
(* delimiter: ",", quoteChar: '"'}): the rows of the text, each a list of  *)
(* cells.  The parser state is [cursor, row, data, nextDelim, nextNewline, *)
(* quoteSearch]; the line ending is "\n" (the texts hold no "\r").         *)

\* finish(value): push the last field and the last row
Finish(st, value) == Append(st.data, Append(st.row, value))

\* extraSpaces(index): the blanks between a closing quote and index
ExtraSpaces(input, quoteSearch, index) ==
    IF index = -1 THEN 0
    ELSE LET between == Substring(input, quoteSearch + 1, index)
         IN  IF between # <<>> /\ Trim(between) = <<>> THEN Len(between) ELSE 0

RECURSIVE ParserLoop(_, _)
RECURSIVE QuotedField(_, _)

\* the inner loop: the field opened by a quote, st.cursor after that quote
QuotedField(input, st) ==
    LET qs == IndexOf(input, Quote, st.quoteSearch + 1)
    IN  IF qs = -1
        THEN \* no closing quote: the rest of the input is the field
             Finish(st, Substring(input, st.cursor, Len(input)))
        ELSE IF qs = Len(input) - 1
        THEN \* closing quote at the end of the input
             Finish(st, Unescape(Substring(input, st.cursor, qs)))
        ELSE IF CharAt(input, qs + 1) = Quote
        THEN \* an escaped quote is part of the field
             QuotedField(input, [st EXCEPT !.quoteSearch = qs + 1])
        ELSE
        LET nd == IF st.nextDelim # -1 /\ st.nextDelim < qs + 1
                  THEN IndexOf(input, Delim, qs + 1) ELSE st.nextDelim
            nn == IF st.nextNewline # -1 /\ st.nextNewline < qs + 1
                  THEN IndexOf(input, Newline, qs + 1) ELSE st.nextNewline
            checkUpTo == IF nn = -1 THEN nd ELSE Min2(nd, nn)
            spD == ExtraSpaces(input, qs, checkUpTo)
            spN == ExtraSpaces(input, qs, nn)
            field == Unescape(Substring(input, st.cursor, qs))
        IN  IF CharAt(input, qs + 1 + spD) = Delim
            THEN \* closing quote, then the delimiter
                 LET c == qs + 1 + spD + 1
                 IN  ParserLoop(input,
                        [cursor |-> c, row |-> Append(st.row, field),
                         data |-> st.data,
                         nextDelim |-> IndexOf(input, Delim, c),
                         nextNewline |-> IndexOf(input, Newline, c),
                         quoteSearch |-> qs])
            ELSE IF CharAt(input, qs + 1 + spN) = Newline
            THEN \* closing quote, then the end of the row
                 LET c == qs + 1 + spN + 1
                 IN  ParserLoop(input,
                        [cursor |-> c, row |-> <<>>,
                         data |-> Append(st.data, Append(st.row, field)),
                         nextDelim |-> IndexOf(input, Delim, c),
                         nextNewline |-> IndexOf(input, Newline, c),
                         quoteSearch |-> qs])
            ELSE \* a quote inside the field: keep searching after it
                 QuotedField(input,
                        [st EXCEPT !.quoteSearch = qs + 1,
                                   !.nextDelim = nd, !.nextNewline = nn])

\* the parser loop, one field per turn
ParserLoop(input, st) ==
    IF CharAt(input, st.cursor) = Quote
    THEN QuotedField(input, [st EXCEPT !.quoteSearch = st.cursor,
                                       !.cursor = st.cursor + 1])
    ELSE IF st.nextDelim # -1
            /\ (st.nextDelim < st.nextNewline \/ st.nextNewline = -1)
    THEN \* the delimiter comes first: end of field
         ParserLoop(input,
            [st EXCEPT !.row = Append(@, Substring(input, st.cursor, st.nextDelim)),
                       !.cursor = st.nextDelim + 1,
                       !.nextDelim = IndexOf(input, Delim, st.nextDelim + 1)])
    ELSE IF st.nextNewline # -1
    THEN \* end of row
         ParserLoop(input,
            [st EXCEPT !.row = <<>>,
                       !.data = Append(@, Append(st.row,
                                    Substring(input, st.cursor, st.nextNewline))),
                       !.cursor = st.nextNewline + 1,
                       !.nextNewline = IndexOf(input, Newline, st.nextNewline + 1)])
    ELSE Finish(st, Substring(input, st.cursor, Len(input)))

\* fast mode, taken when the input holds no quote
FastParse(input) ==
    LET rows == Split(input, Newline)
    IN  [i \in 1 .. Len(rows) |-> Split(rows[i], Delim)]

PapaParse(input) ==
    IF input = <<>> THEN <<>>
    ELSE IF IndexOf(input, Quote, 0) = -1 THEN FastParse(input)
    ELSE ParserLoop(input,
            [cursor |-> 0, row |-> <<>>, data |-> <<>>,
             nextDelim |-> IndexOf(input, Delim, 0),
             nextNewline |-> IndexOf(input, Newline, 0),
             quoteSearch |-> IndexOf(input, Quote, 0)])

----------------------------------------------------------------------------
(* A Record<string, string>: the list of its [key, value] entries in the   *)
(* order Object.keys and JSON.stringify enumerate them (keys that are      *)
(* array indices first, ascending; then the others in insertion order).    *)

Digits == {"0", "1", "2", "3", "4", "5", "6", "7", "8", "9"}

DigitValue(c) ==
    CASE c = "0" -> 0 [] c = "1" -> 1 [] c = "2" -> 2 [] c = "3" -> 3
      [] c = "4" -> 4 [] c = "5" -> 5 [] c = "6" -> 6 [] c = "7" -> 7
      [] c = "8" -> 8 [] c = "9" -> 9

\* a canonical numeric string: an integer-indexed property name
IsArrayIndex(k) ==
    /\ k # <<>>
    /\ \A i \in 1 .. Len(k) : k[i] \in Digits
    /\ (Len(k) = 1 \/ k[1] # "0")

RECURSIVE IndexValue(_)
IndexValue(k) ==
    IF k = <<>> THEN 0
    ELSE 10 * IndexValue(SubSeq(k, 1, Len(k) - 1)) + DigitValue(k[Len(k)])

Keys(obj) == [i \in 1 .. Len(obj) |-> obj[i].key]
HasKey(obj, k) == \E i \in 1 .. Len(obj) : obj[i].key = k
Get(obj, k) == obj[CHOOSE i \in 1 .. Len(obj) : obj[i].key = k].value

\* obj[k] = v
ObjSet(obj, k, v) ==
    IF HasKey(obj, k)
    THEN [i \in 1 .. Len(obj) |->
            IF obj[i].key = k THEN [key |-> k, value |-> v] ELSE obj[i]]
    ELSE IF IsArrayIndex(k)
    THEN LET before == Cardinality({i \in 1 .. Len(obj) :
                          /\ IsArrayIndex(obj[i].key)
                          /\ IndexValue(obj[i].key) < IndexValue(k)})
         IN  SubSeq(obj, 1, before) \o <<[key |-> k, value |-> v]>>
                \o SubSeq(obj, before + 1, Len(obj))
    ELSE Append(obj, [key |-> k, value |-> v])

----------------------------------------------------------------------------
(* parseSurveyCSV *)

\* s.replace(/^"/, "")
StripLeadingQuote(s) ==
    IF s # <<>> /\ s[1] = Quote THEN Tail(s) ELSE s

\* s.replace(/"$/, "")
StripTrailingQuote(s) ==
    IF s # <<>> /\ s[Len(s)] = Quote THEN SubSeq(s, 1, Len(s) - 1) ELSE s

\* col?.trim().replace(/^"/, "").replace(/"$/, "") || ""
Clean(col) == StripTrailingQuote(StripLeadingQuote(Trim(col)))

\* the predicate of findIndex: the row has a cell that cleans to "First Name"
IsHeaderRow(row) ==
    \E i \in 1 .. Len(row) : Clean(row[i]) = <<FirstName>>

\* variant: findLastIndex in place of findIndex
FindLastHeaderRowIndex(rows) ==
    LET hits == {i \in 1 .. Len(rows) : IsHeaderRow(rows[i])}
    IN  IF hits = {} THEN -1
        ELSE (CHOOSE i \in hits : \A j \in hits : i >= j) - 1

\* results.data.findIndex(...): 0-based, -1 when no row matches
FindHeaderRowIndex(rows) ==
    LET hits == {i \in 1 .. Len(rows) : IsHeaderRow(rows[i])}
    IN  IF hits = {} THEN -1
        ELSE (CHOOSE i \in hits : \A j \in hits : i <= j) - 1

\* results.data[headerRowIndex].map(...)
GetHeaders(rows, headerRowIndex) ==
    LET row == rows[headerRowIndex + 1]
    IN  [i \in 1 .. Len(row) |-> Clean(row[i])]

\* variant: row.some((cell) => cell), the trim forgotten
KeepRowUntrimmed(row) == \E i \in 1 .. Len(row) : row[i] # <<>>

\* the predicate of filter: row.some((cell) => cell?.trim())
KeepRow(row) == \E i \in 1 .. Len(row) : Trim(row[i]) # <<>>

\* the headers.forEach loop, from header i on
RECURSIVE FillRecord(_, _, _, _)
FillRecord(obj, headers, row, i) ==
    IF i > Len(headers) THEN obj
    ELSE FillRecord(
            ObjSet(obj, headers[i],
                   IF i <= Len(row) THEN Clean(row[i]) ELSE <<>>),
            headers, row, i + 1)

\* variant: the loop runs over the cells of the row, row.forEach, and not
\* over the headers
RECURSIVE FillRecordByCells(_, _, _, _)
FillRecordByCells(obj, headers, row, i) ==
    IF i > Len(row) THEN obj
    ELSE FillRecordByCells(
            ObjSet(obj,
                   IF i <= Len(headers) THEN headers[i] ELSE <<"undefined">>,
                   Clean(row[i])),
            headers, row, i + 1)
RowToRecordByCells(headers, row) == FillRecordByCells(<<>>, headers, row, 1)

\* the callback of map: one row to one record
RowToRecord(headers, row) == FillRecord(<<>>, headers, row, 1)

\* variant: slice(headerRowIndex), the header row taken as data
AllDataFromHeader(rows, headerRowIndex, headers) ==
    LET after == SubSeq(rows, headerRowIndex + 1, Len(rows))
        kept == SelectSeq(after, KeepRow)
    IN  [i \in 1 .. Len(kept) |-> RowToRecord(headers, kept[i])]

\* results.data.slice(headerRowIndex + 1).filter(...).map(...)
AllData(rows, headerRowIndex, headers) ==
    LET after == SubSeq(rows, headerRowIndex + 2, Len(rows))
        kept == SelectSeq(after, KeepRow)
    IN  [i \in 1 .. Len(kept) |-> RowToRecord(headers, kept[i])]

\* a file of the _data directory: readable with a text, or not readable
File(text) == [readable |-> TRUE, text |-> text]
Unreadable == [readable |-> FALSE, text |-> <<>>]

NoResult == [kind |-> "none"]
IOError == [kind |-> "error", message |-> "ENOENT"]
HeaderNotFound == [kind |-> "error", message |-> "Could not find header row"]

\* variant: the test headerRowIndex === -1 left out, so that
\* results.data[-1].map throws a TypeError
NormalizeUnchecked(rows) ==
    LET headerRowIndex == FindHeaderRowIndex(rows)
    IN  IF headerRowIndex = -1
        THEN [kind |-> "error", message |-> "TypeError"]
        ELSE LET headers == GetHeaders(rows, headerRowIndex)
             IN  [kind |-> "ok",
                  totalRows |-> Len(rows),
                  headerRowIndex |-> headerRowIndex,
                  headers |-> headers,
                  data |-> AllData(rows, headerRowIndex, headers)]

\* the body of parseSurveyCSV after Papa.parse
Normalize(rows) ==
    LET headerRowIndex == FindHeaderRowIndex(rows)
    IN  IF headerRowIndex = -1 THEN HeaderNotFound
        ELSE LET headers == GetHeaders(rows, headerRowIndex)
             IN  [kind |-> "ok",
                  totalRows |-> Len(rows),
                  headerRowIndex |-> headerRowIndex,
                  headers |-> headers,
                  data |-> AllData(rows, headerRowIndex, headers)]

----------------------------------------------------------------------------
(* GET /api/survey *)

OpeningFile == "Black+History+Retreat+Survey+(Opening+Survey).csv"
ClosingFile == "Black+Futures+Retreat+Survey+(Closing+Survey).csv"
Filenames == {OpeningFile, ClosingFile}

\* searchParams.get("type") when the parameter is absent
NoParam == "(null)"

\* variant: only !type is tested
IsValidTypeDropIncludes(type) == type # NoParam /\ type # ""

\* the negation of: !type || !["opening", "closing"].includes(type)
IsValidType(type) ==
    /\ type # NoParam
    /\ type # ""
    /\ type \in {"opening", "closing"}

\* type === "opening" ? opening file : closing file
SurveyFilename(type) == IF type = "opening" THEN OpeningFile ELSE ClosingFile

JsonResponse(body, status) ==
    [status |-> status, contentType |-> "application/json", body |-> body]

CsvResponse(text) ==
    [status |-> 200, contentType |-> "text/csv", body |-> text]

NoResponse == [status |-> 0, contentType |-> "", body |-> <<>>]

\* the response of the handler to a request with this type parameter
RouteResponse(disk, type) ==
    IF ~IsValidType(type)
    THEN JsonResponse([error |-> "Invalid survey type"], 400)
    ELSE IF ~disk[SurveyFilename(type)].readable
    THEN JsonResponse([error |-> "Failed to load survey data"], 500)
    ELSE CsvResponse(disk[SurveyFilename(type)].text)

\* the fs.readFile calls of the handler
RouteReads(type) ==
    IF ~IsValidType(type) THEN <<>> ELSE <<SurveyFilename(type)>>

----------------------------------------------------------------------------
(* SurveyVisualization: the values it computes from the records           *)

StronglyAgree == <<"Strongly ", "Agree">>
Agree == <<"Agree">>
SomewhatAgree == <<"Somewhat ", "Agree">>
Neutral == <<"Neutral">>
SomewhatDisagree == <<"Somewhat ", "Disagree">>
Disagree == <<"Disagree">>
StronglyDisagree == <<"Strongly ", "Disagree">>

\* the keys of the counts object, in the order Object.entries lists them
LikertLabels ==
    <<StronglyAgree, Agree, SomewhatAgree, Neutral, SomewhatDisagree,
      Disagree, StronglyDisagree>>

\* the value of a property the object does not have
Undefined == <<"undefined">>

\* row[key]
Prop(row, key) == IF HasKey(row, key) THEN Get(row, key) ELSE Undefined

\* Boolean(v) for a string or undefined
Truthy(v) == v # <<>> /\ v # Undefined

\* s.includes(word) for a word that is a token
Includes(s, word) == \E i \in 1 .. Len(s) : s[i] = word

\* s.startsWith(word) for a word that is a token
StartsWith(s, word) == s # <<>> /\ s[1] = word

\* variant: Math.floor(num / den)
MathFloor(num, den) == num \div den

\* Math.round(num / den) for num >= 0 and den > 0 (halves round up)
MathRound(num, den) == (2 * num + den) \div (2 * den)

\* rows.filter(row => row[question] === v for a v of values).length
CountRows(rows, question, values) ==
    Cardinality({i \in 1 .. Len(rows) : Prop(rows[i], question) \in values})

\* isValidResponse of the filter in loadData
IsValidResponse(v) ==
    /\ Truthy(v)
    /\ v # Undefined            \* typeof v === 'string'
    /\ (Includes(v, "Agree") \/ Includes(v, "Disagree"))

MetadataFields == {<<FirstName>>, <<"Last Name">>, <<"Title">>, <<"Organization">>}

\* isMetadataField of the filter in loadData
IsMetadataField(key) ==
    \/ StartsWith(key, "Response")
    \/ Includes(key, "ID")
    \/ key \in MetadataFields

\* variant: the filter without the list of name fields
ClassifyQuestionsByPrefix(parsedData) ==
    SelectSeq(Keys(parsedData[1]),
              LAMBDA key :
                  /\ IsValidResponse(Prop(parsedData[1], key))
                  /\ ~StartsWith(key, "Response")
                  /\ ~Includes(key, "ID"))

\* Object.keys(parsedData[0] || {}).filter(...)
ClassifyQuestions(parsedData) ==
    SelectSeq(Keys(parsedData[1]),
              LAMBDA key :
                  /\ IsValidResponse(Prop(parsedData[1], key))
                  /\ ~IsMetadataField(key))

\* parsedData.filter(row => row[question] === 'Strongly Agree').length
StronglyAgreeCount(parsedData, question) ==
    CountRows(parsedData, question, {StronglyAgree})

\* variant: the item goes before the items that compare equal to it
RECURSIVE InsertBeforeEqual(_, _, _)
InsertBeforeEqual(sorted, item, parsedData) ==
    IF sorted = <<>> THEN <<item>>
    ELSE IF StronglyAgreeCount(parsedData, Head(sorted))
              > StronglyAgreeCount(parsedData, item)
    THEN <<Head(sorted)>> \o InsertBeforeEqual(Tail(sorted), item, parsedData)
    ELSE <<item>> \o sorted

\* one step of the stable sort: the item goes after the items that do not
\* compare greater than it (b.stronglyAgreeCount - a.stronglyAgreeCount <= 0)
RECURSIVE InsertByCount(_, _, _)
InsertByCount(sorted, item, parsedData) ==
    IF sorted = <<>> THEN <<item>>
    ELSE IF StronglyAgreeCount(parsedData, Head(sorted))
              >= StronglyAgreeCount(parsedData, item)
    THEN <<Head(sorted)>> \o InsertByCount(Tail(sorted), item, parsedData)
    ELSE <<item>> \o sorted

\* variant: a sort that is not stable
RECURSIVE SortUnstable(_, _)
SortUnstable(parsedData, items) ==
    IF items = <<>> THEN <<>>
    ELSE InsertBeforeEqual(
             SortUnstable(parsedData, SubSeq(items, 1, Len(items) - 1)),
             items[Len(items)], parsedData)

\* items.sort((a, b) => b.stronglyAgreeCount - a.stronglyAgreeCount):
\* Array.prototype.sort is stable
RECURSIVE SortByCountDescending(_, _)
SortByCountDescending(parsedData, items) ==
    IF items = <<>> THEN <<>>
    ELSE InsertByCount(
             SortByCountDescending(parsedData, SubSeq(items, 1, Len(items) - 1)),
             items[Len(items)], parsedData)

\* variant of RankQuestions
RankQuestionsUnstable(parsedData, qs) == SortUnstable(parsedData, qs)

\* sortedQs: questionsWithStronglyAgree.sort(...).map(item => item.question)
RankQuestions(parsedData, qs) == SortByCountDescending(parsedData, qs)

\* data.map(row => row[question]).filter(Boolean)
Responses(rows, question) ==
    SelectSeq([i \in 1 .. Len(rows) |-> Prop(rows[i], question)], Truthy)

\* variant: a response counts for the label it ends with
LabelCountBySuffix(responses, label) ==
    Cardinality({i \in 1 .. Len(responses) :
                    responses[i][Len(responses[i])] = label[Len(label)]})

\* counts[label] after the forEach
LabelCount(responses, label) ==
    Cardinality({i \in 1 .. Len(responses) : responses[i] = label})

\* the chart entry of a label
ChartEntry(responses, label) ==
    [name |-> label,
     value |-> LabelCount(responses, label),
     percentage |-> MathRound(100 * LabelCount(responses, label),
                              Len(responses))]

\* variant: the percentage is taken of the labelled responses only
LikertDistributionOfLabelled(rows, question) ==
    LET all == Responses(rows, question)
        responses == SelectSeq(all, LAMBDA r : Includes(LikertLabels, r))
        kept == SelectSeq(LikertLabels,
                          LAMBDA label : LabelCount(responses, label) > 0)
    IN  IF rows = <<>> THEN <<>>
        ELSE [i \in 1 .. Len(kept) |-> ChartEntry(responses, kept[i])]

\* processLikertResponses(question) over these records
LikertDistribution(rows, question) ==
    LET responses == Responses(rows, question)
        kept == SelectSeq(LikertLabels,
                          LAMBDA label : LabelCount(responses, label) > 0)
    IN  IF rows = <<>> THEN <<>>
        ELSE [i \in 1 .. Len(kept) |-> ChartEntry(responses, kept[i])]

\* processLikertResponses(question): the records are the held ones
processLikertResponses(question) == LikertDistribution(data, question)

NullSummary == [kind |-> "null"]

\* variant: only "Strongly Agree" counts as a positive response
SatisfactionPercentageStronglyOnly(parsedData, q) ==
    MathRound(100 * CountRows(parsedData, q, {StronglyAgree}), Len(parsedData))

\* satisfactionPercentages[i] for the question q
SatisfactionPercentage(parsedData, q) ==
    MathRound(100 * CountRows(parsedData, q, {StronglyAgree, Agree}),
              Len(parsedData))

\* variant: the rate is taken of the answered records only
RoomForImprovementPercentageOfAnswered(parsedData, q) ==
    MathRound(100 * CountRows(parsedData, q, {Disagree}),
              Max2(1, Len(Responses(parsedData, q))))

\* roomForImprovementPercentages[i] for the question q
RoomForImprovementPercentage(parsedData, q) ==
    MathRound(100 * CountRows(parsedData, q, {Disagree}), Len(parsedData))

RECURSIVE Sum(_)
Sum(seq) == IF seq = <<>> THEN 0 ELSE Head(seq) + Sum(Tail(seq))

\* variant: the guard on the question list is missing
calculateExecutiveSummaryUnguarded(parsedData, qs) ==
    IF parsedData = <<>> THEN NullSummary
    ELSE [kind |-> "summary",
          totalResponses |-> Len(parsedData),
          highestRated |-> [question |-> Undefined, percentage |-> 0],
          lowestRated |-> [question |-> Undefined, percentage |-> 0],
          overallSatisfaction |-> 0]

\* variant: the mean is taken of the rates before they are rounded
calculateExecutiveSummaryExactMean(parsedData, qs) ==
    IF parsedData = <<>> \/ qs = <<>> THEN NullSummary
    ELSE [kind |-> "summary",
          totalResponses |-> Len(parsedData),
          highestRated |->
              [question |-> qs[1],
               percentage |-> SatisfactionPercentage(parsedData, qs[1])],
          lowestRated |->
              [question |-> qs[Len(qs)],
               percentage |->
                   RoomForImprovementPercentage(parsedData, qs[Len(qs)])],
          overallSatisfaction |->
              MathRound(100 * Sum([i \in 1 .. Len(qs) |->
                                     CountRows(parsedData, qs[i],
                                               {StronglyAgree, Agree})]),
                        Len(parsedData) * Len(qs))]

\* variant: the best and the worst positive-response rate
calculateExecutiveSummaryByRate(parsedData, qs) ==
    IF parsedData = <<>> \/ qs = <<>> THEN NullSummary
    ELSE LET rate(q) == SatisfactionPercentage(parsedData, q)
             best == CHOOSE i \in 1 .. Len(qs) :
                        \A j \in 1 .. Len(qs) :
                            \/ rate(qs[i]) > rate(qs[j])
                            \/ rate(qs[i]) = rate(qs[j]) /\ i <= j
             worst == CHOOSE i \in 1 .. Len(qs) :
                        \A j \in 1 .. Len(qs) :
                            \/ rate(qs[i]) < rate(qs[j])
                            \/ rate(qs[i]) = rate(qs[j]) /\ i >= j
         IN  [kind |-> "summary",
              totalResponses |-> Len(parsedData),
              highestRated |-> [question |-> qs[best],
                                percentage |-> rate(qs[best])],
              lowestRated |-> [question |-> qs[worst],
                               percentage |-> rate(qs[worst])],
              overallSatisfaction |->
                  MathRound(Sum([i \in 1 .. Len(qs) |-> rate(qs[i])]), Len(qs))]

\* calculateExecutiveSummary(parsedData, questions)
calculateExecutiveSummary(parsedData, qs) ==
    IF parsedData = <<>> \/ qs = <<>> THEN NullSummary
    ELSE [kind |-> "summary",
          totalResponses |-> Len(parsedData),
          highestRated |->
              [question |-> qs[1],
               percentage |-> SatisfactionPercentage(parsedData, qs[1])],
          lowestRated |->
              [question |-> qs[Len(qs)],
               percentage |->
                   RoomForImprovementPercentage(parsedData, qs[Len(qs)])],
          overallSatisfaction |->
              MathRound(Sum([i \in 1 .. Len(qs) |->
                                SatisfactionPercentage(parsedData, qs[i])]),
                        Len(qs))]

\* NaN, as a number that is no percentage
NaN == -1

\* the response types the render averages
AveragedTypes == {StronglyAgree, Agree, SomewhatAgree, Disagree}

\* variant: the percentage of each question is rounded before the mean
calculateAveragePercentageOfRounded(rows, responseType) ==
    LET qs == IF rows = <<>> THEN <<>> ELSE ClassifyQuestions(rows)
    IN  IF qs = <<>> THEN NaN
        ELSE MathRound(Sum([i \in 1 .. Len(qs) |->
                              MathRound(100 * CountRows(rows, qs[i],
                                                        {responseType}),
                                        Len(rows))]),
                       Len(qs))

\* calculateAveragePercentage(data, responseType): the questions are those
\* of data[0] || {}, the percentages are not rounded, and the mean of no
\* percentages is 0 / 0
calculateAveragePercentage(rows, responseType) ==
    LET qs == IF rows = <<>> THEN <<>> ELSE ClassifyQuestions(rows)
    IN  IF qs = <<>> THEN NaN
        ELSE MathRound(100 * Sum([i \in 1 .. Len(qs) |->
                                    CountRows(rows, qs[i], {responseType})]),
                       Len(rows) * Len(qs))

\* error === null
NoError == "(null)"

\* what a fetch of loadData can come back with
NotFetched == [kind |-> "none"]
Rejected == [kind |-> "rejected"]      \* fetch rejects
NotOk == [kind |-> "notOk"]            \* response.ok is false
Unparsable == [kind |-> "unparsable"]  \* response.json() rejects
Json(body) == [kind |-> "json", body |-> body]

\* variant: one message for every load that yields nothing
LoadErrorUniform(outcome) == "Failed to load data"

\* the argument of setError in loadData: in the catch block after a
\* rejection, a response that is not OK or a body that is not JSON; in the
\* branch of parsedData.length === 0 otherwise
LoadError(outcome) ==
    IF outcome.kind # "json" THEN "Failed to load data"
    ELSE "No valid data found"

\* variant: the records read are appended to the held ones
SetDataAppending(held, parsedData) == held \o parsedData

\* setData(parsedData): the held records after the call
SetData(held, parsedData) == parsedData

\* no call of parseSurveyCSV has been made
NotCalled ==
    /\ callLog = <<>>
    /\ returned = [f \in Filenames |-> NoResult]

\* the first render: the initial values of the useState calls
Mounted ==
    /\ selectedSurvey = "opening"
    /\ data = <<>>
    /\ error = NoError
    /\ loading = TRUE
    /\ sortedQuestions = <<>>
    /\ executiveSummary = NullSummary
    /\ isSwitching = FALSE
    /\ effectPending = TRUE
    /\ fetching = <<>>
    /\ fetched = NotFetched
    /\ questions = <<>>
    /\ loadedSurvey = NoParam

\* variant: the render without the early return on error
RenderIgnoringError ==
    IF loading THEN [kind |-> "card", text |-> "Loading survey data..."]
    ELSE IF executiveSummary = NullSummary
    THEN [kind |-> "alert", text |-> "Unable to process survey data"]
    ELSE [kind |-> "dashboard", text |-> ""]

\* what the component returns from its render
Render ==
    IF loading THEN [kind |-> "card", text |-> "Loading survey data..."]
    ELSE IF error # NoError THEN [kind |-> "alert", text |-> error]
    ELSE IF executiveSummary = NullSummary
    THEN [kind |-> "alert", text |-> "Unable to process survey data"]
    ELSE [kind |-> "dashboard", text |-> ""]

\* variant: the button is not disabled while a switch is under way
CanSwitchWhileSwitching == Render.kind = "dashboard"

\* the button of SurveySelector is rendered and not disabled
CanSwitch == Render.kind = "dashboard" /\ ~isSwitching

----------------------------------------------------------------------------
(* Inputs *)

\* the lines the files are made of
LineEmpty == <<>>
LineBlank == <<Space, Delim>>
LinePreamble == <<Quote, SubmittedDate, Quote, Delim, Space,
                  Quote, Quote, Quote, "a", Quote, Quote, Quote>>
LineHeaderPlain == <<FirstName, Delim, "b", Delim, "c">>
LineHeaderLoose == <<Space, Quote, FirstName, Quote, Delim, "1", Delim, "a",
                     Delim, "a">>
LineData == <<"b", Delim, Quote, Quote, Quote, "a", Quote, Quote, Quote>>

LinePool == {LineEmpty, LineBlank, LinePreamble, LineHeaderPlain,
             LineHeaderLoose, LineData}

\* lines.join("\n")
RECURSIVE Join(_)
Join(lines) ==
    IF lines = <<>> THEN <<>>
    ELSE IF Len(lines) = 1 THEN lines[1]
    ELSE lines[1] \o <<Newline>> \o Join(Tail(lines))

TextsUpTo(n) ==
    {Join(ls) : ls \in UNION {[1 .. k -> LinePool] : k \in 0 .. n}}

\* a data row with a cell more than the header has columns, the only cell
\* of the row that is not empty
LineWide == <<Delim, Delim, Delim, "a">>
\* a file whose data row is wider than its header
WideRowText == Join(<<LineHeaderPlain, LineWide>>)

\* the longest file the normalizer is run on, in lines
MaxLines == 5
\* the longest file the route serves, in lines
MaxRouteLines == 1
\* the longest file of the repeated calls of the normalizer, in lines
MaxCallLines == 2
\* the number of calls of the normalizer in a row
MaxCalls == 3

TypeParams == {NoParam, "", "opening", "closing", "bogus", "Opening"}

\* the columns of the generated records
ColFirstName == <<FirstName>>
ColResponse == <<"Response", " ", "1">>
ColID == <<"ID">>
Q1 == <<"Q", "1">>
Q2 == <<"Q", "2">>
Q3 == <<"Q", "3">>
Columns == <<ColFirstName, ColResponse, ColID, Q1, Q2, Q3>>

\* the object with these keys (none an array index, all distinct) and values
MkRecord(cols, vals) ==
    [i \in 1 .. Len(cols) |-> [key |-> cols[i], value |-> vals[i]]]

Agreed == <<"Agree", "d">>
NotApplicable == <<"N", "/", "A">>

RecordPool ==
    { MkRecord(Columns, <<Agree, Agree, StronglyAgree,
                          StronglyAgree, StronglyAgree, Agree>>),
      MkRecord(Columns, <<<<"x">>, <<>>, <<>>,
                          Disagree, Agree, <<>>>>),
      MkRecord(Columns, <<<<"y">>, <<"1">>, Agree,
                          Neutral, Agreed, StronglyAgree>>),
      MkRecord(Columns, <<<<"z">>, <<"1">>, <<"3">>,
                          <<>>, NotApplicable, Neutral>>) }

MaxRecords == 3

RECURSIVE DatasetsUpTo(_)
DatasetsUpTo(n) ==
    IF n = 0 THEN {<<>>}
    ELSE LET shorter == DatasetsUpTo(n - 1)
         IN  shorter \cup {Append(d, r) : d \in shorter, r \in RecordPool}

\* eleven records with ten responses to Q1, seven "Agree" and three
\* "Strongly Agree", and three responses to Q2, two "Agree" and one
\* "Disagree"
TenResponses ==
    [i \in 1 .. 11 |->
        MkRecord(<<ColFirstName, Q1, Q2>>,
                 <<<<"x">>,
                   IF i <= 7 THEN Agree ELSE IF i <= 10 THEN StronglyAgree
                   ELSE <<>>,
                   IF i <= 2 THEN Agree ELSE IF i = 3 THEN Disagree ELSE <<>>>>)]

\* five records whose columns Q1, Q2, Q3 hold 5, 5 and 3 "Strongly Agree"
RankingExample ==
    [i \in 1 .. 5 |->
        MkRecord(<<Q1, Q2, Q3>>,
                 <<StronglyAgree, StronglyAgree,
                   IF i <= 3 THEN StronglyAgree ELSE Agree>>)]

Datasets == DatasetsUpTo(MaxRecords) \cup {TenResponses, RankingExample}

FetchOutcomes == {Rejected, NotOk, Unparsable} \cup {Json(d) : d \in Datasets}

----------------------------------------------------------------------------
(* The normalizer, called on the files of a directory that holds one file *)

InitNormalize ==
    /\ files \in {[f \in Filenames |->
                     IF f = OpeningFile THEN File(t) ELSE Unreadable] :
                  t \in TextsUpTo(MaxLines) \cup {WideRowText}}
    /\ filename = ""
    /\ results = <<>>
    /\ parseResult = NoResult
    /\ request = NoParam
    /\ response = NoResponse
    /\ readLog = <<>>
    /\ NotCalled
    /\ Mounted

\* variant: allData is kept between the calls and grows with each of them
ParseCallAccumulating(f) ==
    /\ filename' = f
    /\ IF ~files[f].readable
       THEN /\ results' = <<>>
            /\ parseResult' = IOError
       ELSE /\ results' = PapaParse(files[f].text)
            /\ parseResult' =
                   LET fresh == Normalize(results')
                   IN  IF fresh.kind = "ok" /\ parseResult.kind = "ok"
                       THEN [fresh EXCEPT !.data = parseResult.data \o @]
                       ELSE fresh

\* what a call parseSurveyCSV(f) reads and returns or throws
ParseCall(f) ==
    /\ filename' = f
    /\ IF ~files[f].readable
       THEN /\ results' = <<>>
            /\ parseResult' = IOError
       ELSE /\ results' = PapaParse(files[f].text)
            /\ parseResult' = Normalize(results')

\* parseSurveyCSV(f)
ParseSurveyCSV(f) ==
    /\ ParseCall(f)
    /\ UNCHANGED <<files, request, response, readLog, callLog, returned,
                   dashVars>>

NextNormalize == \E f \in Filenames : ParseSurveyCSV(f)

SpecNormalize == InitNormalize /\ [][NextNormalize]_vars

----------------------------------------------------------------------------
(* The normalizer, called again and again on two files; the second file   *)
(* is missing or holds a header and two data rows.                        *)

OtherText == Join(<<LineHeaderPlain, LineData, LineData>>)

InitRepeated ==
    /\ files \in {[f \in Filenames |->
                     IF f = OpeningFile THEN first ELSE second] :
                  first \in {Unreadable}
                             \cup {File(t) : t \in TextsUpTo(MaxCallLines)},
                  second \in {Unreadable, File(OtherText)}}
    /\ filename = ""
    /\ results = <<>>
    /\ parseResult = NoResult
    /\ request = NoParam
    /\ response = NoResponse
    /\ readLog = <<>>
    /\ NotCalled
    /\ Mounted

\* parseSurveyCSV(f), the call and its outcome recorded
Invoke(f) ==
    /\ Len(callLog) < MaxCalls
    /\ ParseCall(f)
    /\ callLog' = Append(callLog, f)
    /\ returned' = IF returned[f] = NoResult
                   THEN [returned EXCEPT ![f] = parseResult']
                   ELSE returned
    /\ UNCHANGED <<files, request, response, readLog, dashVars>>

NextRepeated == \E f \in Filenames : Invoke(f)

SpecRepeated == InitRepeated /\ [][NextRepeated]_vars

----------------------------------------------------------------------------
(* The route *)

RouteContents == {Unreadable} \cup {File(t) : t \in TextsUpTo(MaxRouteLines)}

Init ==
    /\ files \in [Filenames -> RouteContents]
    /\ filename = ""
    /\ results = <<>>
    /\ parseResult = NoResult
    /\ request = NoParam
    /\ response = NoResponse
    /\ readLog = <<>>
    /\ NotCalled
    /\ Mounted

\* GET(request) with searchParams.get("type") = type
GET(type) ==
    /\ request' = type
    /\ response' = RouteResponse(files, type)
    /\ readLog' = RouteReads(type)
    /\ UNCHANGED <<files, filename, results, parseResult, callLog, returned,
                   dashVars>>

Next == \E type \in TypeParams : GET(type)

Spec == Init /\ [][Next]_vars

----------------------------------------------------------------------------
(* The dashboard component.  The server is its environment: a fetch comes *)
(* back rejected, not OK, with a body that is not JSON, or with a JSON    *)
(* array of records.                                                       *)

InitDashboard ==
    /\ files = [f \in Filenames |-> Unreadable]
    /\ filename = ""
    /\ results = <<>>
    /\ parseResult = NoResult
    /\ request = NoParam
    /\ response = NoResponse
    /\ readLog = <<>>
    /\ NotCalled
    /\ Mounted

\* the effect of [selectedSurvey]: loadData up to its first await
RunEffect ==
    /\ effectPending
    /\ effectPending' = FALSE
    /\ isSwitching' = TRUE
    /\ fetching' = Append(fetching, selectedSurvey)
    /\ UNCHANGED <<selectedSurvey, data, error, loading, sortedQuestions,
                   executiveSummary, fetched, questions, loadedSurvey,
                   serverVars>>

\* onClick of the button of SurveySelector
Switch ==
    /\ CanSwitch
    /\ isSwitching' = TRUE
    /\ selectedSurvey' = IF selectedSurvey = "opening" THEN "closing"
                         ELSE "opening"
    /\ effectPending' = TRUE
    /\ UNCHANGED <<data, error, loading, sortedQuestions, executiveSummary,
                   fetching, fetched, questions, loadedSurvey, serverVars>>

\* variant: a load that yields nothing empties what is held
LoadDataClearing(i, outcome) ==
    /\ i \in 1 .. Len(fetching)
    /\ fetching' = SubSeq(fetching, 1, i - 1)
                      \o SubSeq(fetching, i + 1, Len(fetching))
    /\ fetched' = outcome
    /\ loading' = FALSE
    /\ isSwitching' = FALSE
    /\ IF outcome.kind # "json" \/ outcome.body = <<>>
       THEN /\ error' = LoadError(outcome)
            /\ data' = <<>>
            /\ sortedQuestions' = <<>>
            /\ executiveSummary' = NullSummary
            /\ UNCHANGED <<questions, loadedSurvey>>
       ELSE /\ questions' = ClassifyQuestions(outcome.body)
            /\ sortedQuestions' = RankQuestions(outcome.body, questions')
            /\ data' = SetData(data, outcome.body)
            /\ executiveSummary' =
                   calculateExecutiveSummary(outcome.body, sortedQuestions')
            /\ loadedSurvey' = fetching[i]
            /\ error' = error
    /\ UNCHANGED <<selectedSurvey, effectPending, serverVars>>

\* variant: the branch of zero records returns without setIsSwitching(false)
LoadDataLeavesSwitching(i, outcome) ==
    /\ i \in 1 .. Len(fetching)
    /\ fetching' = SubSeq(fetching, 1, i - 1)
                      \o SubSeq(fetching, i + 1, Len(fetching))
    /\ fetched' = outcome
    /\ loading' = FALSE
    /\ isSwitching' = (outcome.kind = "json" /\ outcome.body = <<>>)
    /\ IF outcome.kind # "json" \/ outcome.body = <<>>
       THEN /\ error' = LoadError(outcome)
            /\ UNCHANGED <<data, sortedQuestions, executiveSummary, questions,
                           loadedSurvey>>
       ELSE /\ questions' = ClassifyQuestions(outcome.body)
            /\ sortedQuestions' = RankQuestions(outcome.body, questions')
            /\ data' = SetData(data, outcome.body)
            /\ executiveSummary' =
                   calculateExecutiveSummary(outcome.body, sortedQuestions')
            /\ loadedSurvey' = fetching[i]
            /\ error' = error
    /\ UNCHANGED <<selectedSurvey, effectPending, serverVars>>

\* loadData from its first await on, for the i-th fetch in flight
LoadData(i, outcome) ==
    /\ i \in 1 .. Len(fetching)
    /\ fetching' = SubSeq(fetching, 1, i - 1)
                      \o SubSeq(fetching, i + 1, Len(fetching))
    /\ fetched' = outcome
    /\ loading' = FALSE
    /\ isSwitching' = FALSE
    /\ IF outcome.kind # "json" \/ outcome.body = <<>>
       THEN /\ error' = LoadError(outcome)
            /\ UNCHANGED <<data, sortedQuestions, executiveSummary, questions,
                           loadedSurvey>>
       ELSE /\ questions' = ClassifyQuestions(outcome.body)
            /\ sortedQuestions' = RankQuestions(outcome.body, questions')
            /\ data' = SetData(data, outcome.body)
            /\ executiveSummary' =
                   calculateExecutiveSummary(outcome.body, sortedQuestions')
            /\ loadedSurvey' = fetching[i]
            /\ error' = error
    /\ UNCHANGED <<selectedSurvey, effectPending, serverVars>>

NextDashboard ==
    \/ RunEffect
    \/ Switch
    \/ \E i \in 1 .. Len(fetching), outcome \in FetchOutcomes :
           LoadData(i, outcome)

SpecDashboard == InitDashboard /\ [][NextDashboard]_vars

\* the records a fetch reads where the loads are followed to their end
MaxBriefRecords == 2

BriefOutcomes ==
    {Rejected, NotOk, Unparsable}
        \cup {Json(d) : d \in DatasetsUpTo(MaxBriefRecords)}

\* a fetch in flight settles and loadData runs on
LoadSettles ==
    \E i \in 1 .. Len(fetching), outcome \in BriefOutcomes :
        LoadData(i, outcome)

NextDashboardFair ==
    \/ RunEffect
    \/ Switch
    \/ LoadSettles

\* React runs a queued effect, and a fetch settles sooner or later (the
\* browser resolves it or rejects it, at the latest on its network timeout)
\* and the continuation of loadData is then run by the event loop
SpecDashboardFair ==
    /\ InitDashboard
    /\ [][NextDashboardFair]_vars
    /\ WF_vars(RunEffect)
    /\ WF_vars(LoadSettles)

----------------------------------------------------------------------------
(* Properties of the normalizer, stated on the rows Papa.parse returned    *)
(* (results) and on what the call returned or threw (parseResult).         *)

\* the latest call read its file
Returned == filename # "" /\ files[filename].readable
Parsed == Returned /\ parseResult.kind = "ok"

\* the cell is the anchor a, up to surrounding whitespace and one quote on
\* either side
CellIs(cell, a) ==
    \E i \in 1 .. Len(cell) : \E j \in i .. Len(cell) :
        /\ \A k \in 1 .. (i - 1) : cell[k] \in WhiteSpace
        /\ \A k \in (j + 1) .. Len(cell) : cell[k] \in WhiteSpace
        /\ SubSeq(cell, i, j) \in
              {<<a>>, <<Quote, a>>, <<a, Quote>>, <<Quote, a, Quote>>}

HasAnchor(row, anchors) ==
    \E i \in 1 .. Len(row) : \E a \in anchors : CellIs(row[i], a)

\* the rows (1-based positions in results) that hold an anchor
AnchorRows(anchors) ==
    {i \in 1 .. Len(results) : HasAnchor(results[i], anchors)}

FirstOf(S) == CHOOSE i \in S : \A j \in S : i <= j

\* every cell of the row is empty or whitespace
BlankRow(row) ==
    \A i \in 1 .. Len(row) : \A j \in 1 .. Len(row[i]) : row[i][j] \in WhiteSpace

\* the positions after the header row h (1-based) of the rows that are not
\* blank, in file order
RECURSIVE SolidRowsFrom(_)
SolidRowsFrom(i) ==
    IF i > Len(results) THEN <<>>
    ELSE IF BlankRow(results[i]) THEN SolidRowsFrom(i + 1)
    ELSE <<i>> \o SolidRowsFrom(i + 1)

SolidRowsAfter(h) == SolidRowsFrom(h + 1)

Distinct(seq) ==
    \A i \in 1 .. Len(seq) : \A j \in 1 .. Len(seq) : seq[i] = seq[j] => i = j

\* the column names in the order a record lists them: the array indices
\* ascending, then the other names by first occurrence, none repeated
RECURSIVE IndexNamesFrom(_, _)
IndexNamesFrom(names, least) ==
    LET rest == {n \in names : IndexValue(n) >= least}
    IN  IF rest = {} THEN <<>>
        ELSE LET n == CHOOSE x \in rest :
                        \A y \in rest : IndexValue(x) <= IndexValue(y)
             IN  <<n>> \o IndexNamesFrom(names, IndexValue(n) + 1)

RECURSIVE PlainNamesFrom(_, _)
PlainNamesFrom(headers, i) ==
    IF i > Len(headers) THEN <<>>
    ELSE IF IsArrayIndex(headers[i])
            \/ \E j \in 1 .. (i - 1) : headers[j] = headers[i]
    THEN PlainNamesFrom(headers, i + 1)
    ELSE <<headers[i]>> \o PlainNamesFrom(headers, i + 1)

ExpectedKeys(headers) ==
    IndexNamesFrom({headers[i] : i \in {j \in 1 .. Len(headers) :
                                          IsArrayIndex(headers[j])}}, 0)
        \o PlainNamesFrom(headers, 1)

\* the value a record built from row holds under key: the cell under the
\* last header column of that name, the empty string when the row is short
ExpectedValue(headers, row, key) ==
    LET at == {i \in 1 .. Len(headers) : headers[i] = key}
        last == CHOOSE i \in at : \A j \in at : i >= j
    IN  IF last <= Len(row) THEN Clean(row[last]) ELSE <<>>

\* rec is the record of row under headers
IsRecordOf(rec, headers, row) ==
    /\ Keys(rec) = ExpectedKeys(headers)
    /\ \A i \in 1 .. Len(rec) :
          rec[i].value = ExpectedValue(headers, row, rec[i].key)

\* a preamble without anchor, then a header row, then rows none of which is
\* blank
PreambleHeaderData ==
    /\ Returned
    /\ AnchorRows({FirstName}) # {}
    /\ \A i \in (FirstOf(AnchorRows({FirstName})) + 1) .. Len(results) :
          ~BlankRow(results[i])

DataRowCount == Len(results) - FirstOf(AnchorRows({FirstName}))

\* C1 as claimed: for a preamble, a header and N data rows none of them
\* blank, the call returns N records and the keys of each record are the
\* header columns in header order.
C1_KeysAreHeaderColumns ==
    PreambleHeaderData =>
        /\ parseResult.kind = "ok"
        /\ Len(parseResult.data) = DataRowCount
        /\ \A k \in 1 .. Len(parseResult.data) :
              Keys(parseResult.data[k]) = parseResult.headers

\* C1 as amended: for a preamble, a header and N data rows none of them
\* blank, the call returns N records; the keys of each record are the
\* header's column names without repetition, the names that are array
\* indices first in ascending order and then the others by first
\* occurrence, which is the header itself when its names are distinct and
\* none is an array index.
C1_RecordsAndKeys ==
    PreambleHeaderData =>
        /\ parseResult.kind = "ok"
        /\ Len(parseResult.data) = DataRowCount
        /\ \A k \in 1 .. Len(parseResult.data) :
              /\ Keys(parseResult.data[k]) = ExpectedKeys(parseResult.headers)
              /\ (/\ Distinct(parseResult.headers)
                  /\ \A i \in 1 .. Len(parseResult.headers) :
                        ~IsArrayIndex(parseResult.headers[i]))
                 => Keys(parseResult.data[k]) = parseResult.headers

\* a one-row preamble, the header First Name,b,c and two data rows give two
\* records keyed First Name, b, c
C1_Witness ==
    /\ PreambleHeaderData
    /\ FirstOf(AnchorRows({FirstName})) = 2
    /\ HasAnchor(results[1], {SubmittedDate})
    /\ DataRowCount = 2
    /\ parseResult.kind = "ok"
    /\ parseResult.headers = <<<<FirstName>>, <<"b">>, <<"c">>>>
    /\ Len(parseResult.data) = 2
    /\ Keys(parseResult.data[2]) = parseResult.headers

\* C2 as claimed: the header row is the first row with a cell that is
\* "First Name" or "Submitted Date" after trimming and stripping one quote
\* on either side; no row before it contributes a key or a record.
C2_FirstRowWithEitherAnchor ==
    (Returned /\ AnchorRows({FirstName, SubmittedDate}) # {}) =>
        /\ parseResult.kind = "ok"
        /\ parseResult.headerRowIndex + 1
              = FirstOf(AnchorRows({FirstName, SubmittedDate}))

\* C2 as amended: the header row is the first row with a cell that is
\* "First Name" after trimming and stripping one quote on either side
\* ("Submitted Date" is no anchor); the keys come from that row alone and
\* the records from the rows after it.
C2_FirstRowWithFirstName ==
    /\ (Returned /\ AnchorRows({FirstName}) # {}) => parseResult.kind = "ok"
    /\ Parsed =>
        LET h == parseResult.headerRowIndex + 1
        IN  /\ AnchorRows({FirstName}) # {}
            /\ h = FirstOf(AnchorRows({FirstName}))
            /\ Len(parseResult.headers) = Len(results[h])
            /\ \A i \in 1 .. Len(results[h]) :
                  parseResult.headers[i] = Clean(results[h][i])
            /\ Len(parseResult.data) <= Len(results) - h
            /\ \A k \in 1 .. Len(parseResult.data) :
                  \E r \in (h + 1) .. Len(results) :
                      IsRecordOf(parseResult.data[k], parseResult.headers,
                                 results[r])

\* a "Submitted Date" row, then two "First Name" rows: the first of these
\* two is the header
C2_Witness ==
    /\ Parsed
    /\ parseResult.headerRowIndex = 1
    /\ HasAnchor(results[1], {SubmittedDate})
    /\ ~HasAnchor(results[1], {FirstName})
    /\ Cardinality(AnchorRows({FirstName})) = 2

\* C3: a non-empty input in which no row holds the anchor cell fails with
\* the header-not-found error and returns no records.
C3_HeaderNotFound ==
    (/\ Returned
     /\ files[filename].text # <<>>
     /\ AnchorRows({FirstName}) = {})
        => parseResult = HeaderNotFound

\* two rows without anchor: the call throws
C3_Witness ==
    /\ Returned
    /\ Len(results) = 2
    /\ ~BlankRow(results[1])
    /\ AnchorRows({FirstName}) = {}
    /\ parseResult = HeaderNotFound

\* C4: the records are exactly the rows after the header row that have a
\* cell which is not empty after trimming, in file order.
C4_SolidRowsInOrder ==
    Parsed =>
        LET solid == SolidRowsAfter(parseResult.headerRowIndex + 1)
        IN  /\ Len(parseResult.data) = Len(solid)
            /\ \A k \in 1 .. Len(solid) :
                  IsRecordOf(parseResult.data[k], parseResult.headers,
                             results[solid[k]])

\* header, two data rows, a blank row, a data row: three records
C4_Witness ==
    /\ Parsed
    /\ parseResult.headerRowIndex = 0
    /\ Len(results) = 5
    /\ {i \in 1 .. 5 : BlankRow(results[i])} = {4}
    /\ results[2] # results[5]
    /\ Len(parseResult.data) = 3

\* C5 as claimed: one layer of quotes is removed and no more; a field
\* written """a""" in the file, and likewise a parsed cell that reads
\* """a""", gives the record value "a" (a between two quotes).
C5_OneLayerStripped ==
    Parsed =>
        /\ files[filename].text = Join(<<LineHeaderPlain, LineData>>)
              => Get(parseResult.data[1], <<"b">>) = <<Quote, "a", Quote>>
        /\ LET solid == SolidRowsAfter(parseResult.headerRowIndex + 1)
           IN  \A k \in 1 .. Len(parseResult.data) :
                 \A i \in 1 .. Len(parseResult.headers) :
                    (/\ i <= Len(results[solid[k]])
                     /\ Trim(results[solid[k]][i])
                           = <<Quote, Quote, Quote, "a", Quote, Quote, Quote>>
                     /\ \A j \in (i + 1) .. Len(parseResult.headers) :
                           parseResult.headers[j] # parseResult.headers[i])
                    => Get(parseResult.data[k], parseResult.headers[i])
                          = <<Quote, "a", Quote>>

\* C6: every record has the header's key set; a key whose column the row
\* lacks maps to the empty string, the cells past the header's length are
\* in no record, and the records of one result share their keys.
C6_HomogeneousKeys ==
    Parsed =>
        LET solid == SolidRowsAfter(parseResult.headerRowIndex + 1)
            headers == parseResult.headers
        IN  \A k \in 1 .. Len(parseResult.data) :
              LET rec == parseResult.data[k]
                  row == results[solid[k]]
              IN  /\ {rec[i].key : i \in 1 .. Len(rec)}
                        = {headers[i] : i \in 1 .. Len(headers)}
                  /\ Distinct(Keys(rec))
                  /\ Keys(rec) = Keys(parseResult.data[1])
                  /\ \A i \in 1 .. Len(headers) :
                        (/\ i > Len(row)
                         /\ \A j \in (i + 1) .. Len(headers) :
                               headers[j] # headers[i])
                        => Get(rec, headers[i]) = <<>>
                  /\ \A i \in 1 .. Len(rec) :
                        \E p \in 1 .. Len(headers) :
                            /\ headers[p] = rec[i].key
                            /\ rec[i].value =
                                  IF p <= Len(row) THEN Clean(row[p]) ELSE <<>>

\* a three-column header, a row of two cells and a row of four cells: two
\* records of three keys, the third value of the first one empty
C6_Witness ==
    /\ Parsed
    /\ Len(parseResult.headers) = 3
    /\ Len(parseResult.data) = 2
    /\ \E r \in 1 .. Len(results) : \E s \in 1 .. Len(results) :
          /\ r > parseResult.headerRowIndex + 1
          /\ s > parseResult.headerRowIndex + 1
          /\ Len(results[r]) = 2 /\ ~BlankRow(results[r])
          /\ Len(results[s]) = 4
    /\ Len(parseResult.data[1]) = 3
    /\ Len(parseResult.data[2]) = 3

----------------------------------------------------------------------------
(* Properties of the route, stated on the request, the response and the    *)
(* files read.                                                             *)

Answered == response.status # 0
AcceptedType == request \in {"opening", "closing"}
RequestedFile ==
    files[IF request = "opening" THEN OpeningFile ELSE ClosingFile]

\* the requested file is readable and the normalizer finds its header row
WellFormedFile ==
    /\ RequestedFile.readable
    /\ Normalize(PapaParse(RequestedFile.text)).kind = "ok"

\* C7: a request whose type is missing or is neither "opening" nor
\* "closing" is answered 400 with {error: "Invalid survey type"}, and no
\* survey file is read for it.
C7_InvalidTypeIs400 ==
    (Answered /\ ~AcceptedType) =>
        /\ response.status = 400
        /\ response.contentType = "application/json"
        /\ response.body = [error |-> "Invalid survey type"]
        /\ readLog = <<>>

\* a request with type=bogus has been answered 400
C7_Witness ==
    /\ request = "bogus"
    /\ response.status = 400
    /\ readLog = <<>>

\* C8 as claimed: a request with an accepted type and a readable,
\* well-formed file is answered 200 with the JSON array of the normalizer's
\* records for that file.
C8_JsonArrayOfRecords ==
    (Answered /\ AcceptedType /\ WellFormedFile) =>
        /\ response.status = 200
        /\ response.contentType = "application/json"
        /\ response.body = Normalize(PapaParse(RequestedFile.text)).data

\* C9 as claimed: a request with an accepted type is answered 500 with
\* {error: "Failed to process survey data"} whenever reading or parsing the
\* file fails.
C9_ProcessingFailureIs500 ==
    (Answered /\ AcceptedType /\ ~WellFormedFile) =>
        /\ response.status = 500
        /\ response.contentType = "application/json"
        /\ response.body = [error |-> "Failed to process survey data"]

\* C10 as claimed: when the requested file has no row matching the header
\* anchor, the request is answered 500 and never 200.
C10_HeaderNotFoundIs500 ==
    (/\ Answered
     /\ AcceptedType
     /\ RequestedFile.readable
     /\ Normalize(PapaParse(RequestedFile.text)) = HeaderNotFound)
        => response.status = 500


----------------------------------------------------------------------------
(* Properties of the dashboard, stated on the state of the component and  *)
(* on what its latest fetch came back with (fetched).                     *)

\* the latest load read a JSON array of at least one record
Loaded == fetched.kind = "json" /\ fetched.body # <<>>

\* the 1-based place of a key among the keys of an object
PlaceOf(obj, k) == CHOOSE i \in 1 .. Len(obj) : obj[i].key = k

ExcludedName(k) ==
    \/ k[1] = "Response"
    \/ "ID" \in {k[i] : i \in 1 .. Len(k)}
    \/ k = <<"First Name">>
    \/ k = <<"Last Name">>
    \/ k = <<"Title">>
    \/ k = <<"Organization">>

MentionsAgreement(v) ==
    /\ v # <<>>
    /\ {"Agree", "Disagree"} \cap {v[i] : i \in 1 .. Len(v)} # {}

\* C11: the classified questions are exactly the columns of the first
\* record whose value there is non-empty and contains "Agree" or
\* "Disagree" and whose name is not excluded, in the order of the columns;
\* a dataset with the same first record classifies the same, whatever its
\* later records hold.
C11_ClassificationByFirstRecord ==
    Loaded =>
        LET first == fetched.body[1]
            qualifying == {first[i].key : i \in
                              {j \in 1 .. Len(first) :
                                  /\ MentionsAgreement(first[j].value)
                                  /\ ~ExcludedName(first[j].key)}}
        IN  /\ {questions[i] : i \in 1 .. Len(questions)} = qualifying
            /\ \A i, j \in 1 .. Len(questions) :
                   i < j => PlaceOf(first, questions[i])
                               < PlaceOf(first, questions[j])
            /\ \A d \in Datasets :
                   (d # <<>> /\ d[1] = first)
                       => ClassifyQuestions(d) = questions

\* an excluded column and an unanswered one are left out although a value
\* of theirs contains "Agree"
C11_Witness ==
    /\ Loaded
    /\ questions # <<>>
    /\ \E i \in 1 .. Len(fetched.body[1]) :
           /\ ExcludedName(fetched.body[1][i].key)
           /\ MentionsAgreement(fetched.body[1][i].value)
    /\ \E r \in 2 .. Len(fetched.body) :
         \E i \in 1 .. Len(fetched.body[r]) :
           /\ ~ExcludedName(fetched.body[r][i].key)
           /\ MentionsAgreement(fetched.body[r][i].value)
           /\ ~MentionsAgreement(Prop(fetched.body[1], fetched.body[r][i].key))
           /\ ~Includes(questions, fetched.body[r][i].key)

\* the number of records whose value in the column is exactly "Strongly Agree"
ExactStronglyAgree(d, q) ==
    Cardinality({i \in 1 .. Len(d) :
                    \E j \in 1 .. Len(d[i]) :
                        /\ d[i][j].key = q
                        /\ d[i][j].value = <<"Strongly ", "Agree">>})

\* the 1-based place of an element in a list without repetitions
IndexIn(seq, x) == CHOOSE i \in 1 .. Len(seq) : seq[i] = x

\* C12: the ranked list holds the classified questions, ordered by
\* non-increasing count of exact "Strongly Agree" values; questions with
\* equal counts keep the order of the columns; counts [5, 5, 3] for the
\* columns [Q1, Q2, Q3] give [Q1, Q2, Q3].
C12_RankedByStronglyAgree ==
    Loaded =>
        LET d == fetched.body
            n == Len(sortedQuestions)
        IN  /\ n = Len(questions)
            /\ {sortedQuestions[i] : i \in 1 .. n}
                   = {questions[i] : i \in 1 .. n}
            /\ \A i, j \in 1 .. n :
                   i < j =>
                     \/ ExactStronglyAgree(d, sortedQuestions[i])
                            > ExactStronglyAgree(d, sortedQuestions[j])
                     \/ /\ ExactStronglyAgree(d, sortedQuestions[i])
                               = ExactStronglyAgree(d, sortedQuestions[j])
                        /\ IndexIn(questions, sortedQuestions[i])
                               < IndexIn(questions, sortedQuestions[j])
            /\ d = RankingExample => sortedQuestions = <<Q1, Q2, Q3>>

\* the ranking moved a question forward past two questions that tie
C12_Witness ==
    /\ Loaded
    /\ sortedQuestions # questions
    /\ \E i, j \in 1 .. Len(sortedQuestions) :
           /\ i < j
           /\ ExactStronglyAgree(fetched.body, sortedQuestions[i])
                  = ExactStronglyAgree(fetched.body, sortedQuestions[j])

\* the values the records hold in a column, one per record that has it
ColumnValues(d, q) ==
    LET having == SelectSeq(d, LAMBDA row : \E j \in 1 .. Len(row) : row[j].key = q)
    IN  [i \in 1 .. Len(having) |->
            having[i][CHOOSE j \in 1 .. Len(having[i]) : having[i][j].key = q].value]

NonEmptyCount(d, q) ==
    Cardinality({i \in 1 .. Len(ColumnValues(d, q)) : ColumnValues(d, q)[i] # <<>>})

SevenLabels == {LikertLabels[i] : i \in 1 .. Len(LikertLabels)}

LabelledCount(d, q) ==
    Cardinality({i \in 1 .. Len(ColumnValues(d, q)) :
                    ColumnValues(d, q)[i] \in SevenLabels})

\* the sum of the counts a distribution reports
ReportedTotal(dist) == Sum([i \in 1 .. Len(dist) |-> dist[i].value])

\* C13 as stated: for every classified question the counts of its
\* distribution sum to the number of non-empty values of its column.
C13_CountsSumToNonEmpty ==
    \A i \in 1 .. Len(sortedQuestions) :
        ReportedTotal(processLikertResponses(sortedQuestions[i]))
            = NonEmptyCount(data, sortedQuestions[i])

\* C13, amended: for every classified question the counts of its
\* distribution sum to the number of values of its column that are one of
\* the seven Likert labels; that number is the number of non-empty values
\* exactly when every non-empty value of the column is a label.
C13_CountsSumToLabelled ==
    \A i \in 1 .. Len(sortedQuestions) :
        LET q == sortedQuestions[i]
            total == ReportedTotal(processLikertResponses(q))
        IN  /\ total = LabelledCount(data, q)
            /\ total <= NonEmptyCount(data, q)
            /\ (total = NonEmptyCount(data, q)) <=>
                   \A j \in 1 .. Len(ColumnValues(data, q)) :
                       ColumnValues(data, q)[j] \in SevenLabels \cup {<<>>}

\* a classified question has labelled values and a non-empty value that is
\* no label
C13_Witness ==
    \E i \in 1 .. Len(sortedQuestions) :
        /\ processLikertResponses(sortedQuestions[i]) # <<>>
        /\ LabelledCount(data, sortedQuestions[i])
               < NonEmptyCount(data, sortedQuestions[i])

\* the records with one more record, whose only value is no label
WithStrayValue(d, q) == Append(d, <<[key |-> q, value |-> <<"N", "/", "A">>]>>)

ExactCount(d, q, label) ==
    Cardinality({i \in 1 .. Len(ColumnValues(d, q)) :
                    ColumnValues(d, q)[i] = label})

\* C15: the distribution of a classified question reports a label exactly
\* when its count is greater than zero, once, with that count and with the
\* percentage round(100 * count / number of non-empty values); ten
\* responses, seven "Agree" and three "Strongly Agree", give Agree 70% and
\* Strongly Agree 30%.
C15_ReportedLabelsAndPercentages ==
    /\ \A i \in 1 .. Len(sortedQuestions) :
           LET q == sortedQuestions[i]
               dist == processLikertResponses(q)
               n == NonEmptyCount(data, q)
           IN  /\ \A label \in SevenLabels :
                      Cardinality({k \in 1 .. Len(dist) : dist[k].name = label})
                          = IF ExactCount(data, q, label) > 0 THEN 1 ELSE 0
               /\ \A k \in 1 .. Len(dist) :
                      /\ dist[k].name \in SevenLabels
                      /\ dist[k].value = ExactCount(data, q, dist[k].name)
                      /\ 2 * n * dist[k].percentage
                             \in (200 * dist[k].value - n + 1)
                                   .. (200 * dist[k].value + n)
    /\ data = TenResponses =>
           {processLikertResponses(Q1)[k] :
                k \in 1 .. Len(processLikertResponses(Q1))}
             = {[name |-> <<"Agree">>, value |-> 7, percentage |-> 70],
                [name |-> <<"Strongly ", "Agree">>, value |-> 3,
                 percentage |-> 30]}

\* the ten responses to Q1 are held, with a record that has none, and two of
\* three responses to Q2 are reported as 67%
C15_Witness ==
    /\ data = TenResponses
    /\ Q1 \in {sortedQuestions[i] : i \in 1 .. Len(sortedQuestions)}
    /\ Len(processLikertResponses(Q1)) = 2
    /\ \E k \in 1 .. Len(processLikertResponses(Q2)) :
           /\ processLikertResponses(Q2)[k].value = 2
           /\ processLikertResponses(Q2)[k].percentage = 67
           /\ NonEmptyCount(data, Q2) = 3

\* the number of "Strongly Agree" and "Agree" values of a column; all rates
\* of one dataset have the same denominator, so the counts order the rates
PositiveCount(d, q) ==
    ExactCount(d, q, <<"Strongly ", "Agree">>) + ExactCount(d, q, <<"Agree">>)

Summarized == executiveSummary # NullSummary

\* C16 as stated: highestRated is a classified question of highest
\* positive-response rate, lowestRated one of lowest positive-response rate.
C16_HighestAndLowestByPositiveRate ==
    Summarized =>
        \A i \in 1 .. Len(sortedQuestions) :
            /\ PositiveCount(data, executiveSummary.highestRated.question)
                   >= PositiveCount(data, sortedQuestions[i])
            /\ PositiveCount(data, executiveSummary.lowestRated.question)
                   <= PositiveCount(data, sortedQuestions[i])

\* C16, amended: highestRated is the first question of the ranked list, a
\* classified question with the most exact "Strongly Agree" values, and
\* lowestRated is the last question of the ranked list, one with the fewest.
C16_HighestAndLowestByRank ==
    Summarized =>
        /\ executiveSummary.highestRated.question = sortedQuestions[1]
        /\ executiveSummary.lowestRated.question
               = sortedQuestions[Len(sortedQuestions)]
        /\ \A i \in 1 .. Len(sortedQuestions) :
               /\ ExactStronglyAgree(data, executiveSummary.highestRated.question)
                      >= ExactStronglyAgree(data, sortedQuestions[i])
               /\ ExactStronglyAgree(data, executiveSummary.lowestRated.question)
                      <= ExactStronglyAgree(data, sortedQuestions[i])

\* another classified question has a higher positive-response rate than
\* highestRated, and another a lower one than lowestRated
C16_Witness ==
    /\ Summarized
    /\ \E i \in 1 .. Len(sortedQuestions) :
           PositiveCount(data, sortedQuestions[i])
               > PositiveCount(data, executiveSummary.highestRated.question)
    /\ \E i \in 1 .. Len(sortedQuestions) :
           PositiveCount(data, sortedQuestions[i])
               < PositiveCount(data, executiveSummary.lowestRated.question)

\* C17: calculateExecutiveSummary returns null when the record list is
\* empty or the question list is empty, and a summary of the records in
\* every other case: on the held records and questions, on each of them
\* emptied, and on what the latest load passed to it.
C17_SummaryAbsentIffNothingToSummarize ==
    /\ \A d \in {<<>>, data} : \A qs \in {<<>>, sortedQuestions} :
           LET summary == calculateExecutiveSummary(d, qs)
           IN  IF d = <<>> \/ qs = <<>>
               THEN summary = NullSummary
               ELSE /\ summary.kind = "summary"
                    /\ summary.totalResponses = Len(d)
    /\ Loaded => (executiveSummary = NullSummary <=> questions = <<>>)

\* records were loaded, none of their columns is a question, and the
\* summary is absent
C17_Witness ==
    /\ Loaded
    /\ data = fetched.body
    /\ sortedQuestions = <<>>
    /\ executiveSummary = NullSummary
    /\ Render = [kind |-> "alert", text |-> "Unable to process survey data"]

\* the latest load read a JSON array without records
ZeroRecords == fetched = Json(<<>>)

\* the latest load failed hard: rejected fetch, response not OK, body not JSON
HardFailure == fetched.kind \in {"rejected", "notOk", "unparsable"}

\* C18 as stated: a load of zero records leaves a "no data" state that is
\* not the state of a hard failure and that is not shown as an error: the
\* error state of the component is not set and the error alert not rendered.
C18_NoDataIsNotAnError ==
    ZeroRecords =>
        /\ error # "Failed to load data"
        /\ error = NoError
        /\ Render.kind # "alert"

\* C18, amended: a load of zero records sets the error state to "No valid
\* data found" and a hard failure sets it to "Failed to load data"; the two
\* differ in the message only: each ends the load (loading and switching
\* off), keeps what was held, and is rendered by the error alert.
C18_NoDataHasItsOwnMessage ==
    /\ ZeroRecords => /\ error = "No valid data found"
                      /\ Render = [kind |-> "alert",
                                   text |-> "No valid data found"]
    /\ HardFailure => /\ error = "Failed to load data"
                      /\ Render = [kind |-> "alert",
                                   text |-> "Failed to load data"]
    /\ (ZeroRecords \/ HardFailure) => ~loading /\ ~isSwitching

\* after a switch the load read zero records: the records of the other
\* survey are still held and the alert says "No valid data found"
C18_Witness ==
    /\ ZeroRecords
    /\ data # <<>>
    /\ selectedSurvey = "closing"
    /\ Render.text = "No valid data found"

\* C19: once a load has read records, whatever was loaded before, the held
\* records are the records read, the ranked list is the ranking of their
\* classified columns and the summary is the summary of these records and
\* questions: what a first load of the same records leaves.
C19_StateIsOfTheNewDataset ==
    Loaded =>
        /\ data = fetched.body
        /\ \A i \in 1 .. Len(sortedQuestions) :
               \E j \in 1 .. Len(fetched.body[1]) :
                   fetched.body[1][j].key = sortedQuestions[i]
        /\ sortedQuestions
               = RankQuestions(fetched.body, ClassifyQuestions(fetched.body))
        /\ executiveSummary
               = calculateExecutiveSummary(fetched.body, sortedQuestions)
        /\ executiveSummary # NullSummary
               => executiveSummary.totalResponses = Len(fetched.body)

\* the second survey has been loaded after a switch, with records of other
\* columns than the generated ones
C19_Witness ==
    /\ Loaded
    /\ selectedSurvey = "closing"
    /\ ~isSwitching
    /\ fetched.body = RankingExample
    /\ data = RankingExample
    /\ executiveSummary # NullSummary

----------------------------------------------------------------------------
(* Properties of repeated calls of the normalizer, stated on the calls    *)
(* made (callLog) and on what the first call on each file returned.       *)

----------------------------------------------------------------------------
(* Properties of the executive summary and of the averages, stated on the *)
(* held records.                                                           *)

\* p is num / den rounded to the nearest integer, halves up
IsRounded(p, num, den) ==
    2 * den * p \in (2 * num - den + 1) .. (2 * num + den)

\* C21: highestRated.question is the first question of the ranked list, and
\* highestRated.percentage is round(100 * (records whose value for it is
\* exactly "Strongly Agree" or exactly "Agree") / all records), a record
\* with an empty value counting in the denominator.
C21_HighestRatedIsFirstRanked ==
    Summarized =>
        /\ executiveSummary.highestRated.question = sortedQuestions[1]
        /\ IsRounded(executiveSummary.highestRated.percentage,
                     100 * PositiveCount(data, sortedQuestions[1]), Len(data))

\* a record has no value for the first ranked question, and the percentage
\* of highestRated is lower than it is among the answered records; some
\* positive responses are "Agree"
C21_Witness ==
    /\ Summarized
    /\ NonEmptyCount(data, sortedQuestions[1]) < Len(data)
    /\ PositiveCount(data, sortedQuestions[1]) > 0
    /\ executiveSummary.highestRated.percentage < 100
    /\ PositiveCount(data, sortedQuestions[1])
           = NonEmptyCount(data, sortedQuestions[1])
    /\ ExactCount(data, sortedQuestions[1], <<"Agree">>) > 0

\* C22: lowestRated.question is the last question of the ranked list, and
\* lowestRated.percentage is round(100 * (records whose value for it is
\* exactly "Disagree") / all records).
C22_LowestRatedIsLastRanked ==
    Summarized =>
        LET last == sortedQuestions[Len(sortedQuestions)]
        IN  /\ executiveSummary.lowestRated.question = last
            /\ IsRounded(executiveSummary.lowestRated.percentage,
                         100 * ExactCount(data, last, <<"Disagree">>),
                         Len(data))

\* the last ranked question is not the first, has "Disagree" values and a
\* record without a value, and its percentage is rounded
C22_Witness ==
    /\ Summarized
    /\ Len(sortedQuestions) > 1
    /\ ExactCount(data, sortedQuestions[Len(sortedQuestions)], <<"Disagree">>) > 0
    /\ NonEmptyCount(data, sortedQuestions[Len(sortedQuestions)]) < Len(data)
    /\ (100 * ExactCount(data, sortedQuestions[Len(sortedQuestions)],
                         <<"Disagree">>)) % Len(data) # 0

\* the integer percentage that is 100 * count / total rounded
RoundedPercentage(count, total) ==
    CHOOSE p \in 0 .. 100 : IsRounded(p, 100 * count, total)

\* the positive-response rates of the ranked questions, each rounded
RoundedRates ==
    [i \in 1 .. Len(sortedQuestions) |->
        RoundedPercentage(PositiveCount(data, sortedQuestions[i]), Len(data))]

\* C23: overallSatisfaction is the mean, rounded, of the positive-response
\* rates of the ranked questions, each of them rounded before; it is an
\* integer between 0 and 100.
C23_OverallIsRoundedMeanOfRoundedRates ==
    Summarized =>
        /\ IsRounded(executiveSummary.overallSatisfaction,
                     Sum(RoundedRates), Len(sortedQuestions))
        /\ executiveSummary.overallSatisfaction \in 0 .. 100

\* the rounded mean of the rounded rates is not the rounded mean of the
\* rates themselves
C23_Witness ==
    /\ Summarized
    /\ ~IsRounded(executiveSummary.overallSatisfaction,
                  100 * Sum([i \in 1 .. Len(sortedQuestions) |->
                                PositiveCount(data, sortedQuestions[i])]),
                  Len(data) * Len(sortedQuestions))

\* the number of values, over all classified questions, that are exactly x
ExactCountOverQuestions(x) ==
    Sum([i \in 1 .. Len(sortedQuestions) |->
            ExactCount(data, sortedQuestions[i], x)])

\* C24: while the dashboard is rendered, the average percentage of a
\* response type X is the mean over the classified questions of
\* 100 * (records whose value is exactly X) / (all records), not rounded,
\* and the mean then rounded.
C24_AverageIsRoundedMeanOfExactRates ==
    Render.kind = "dashboard" =>
        \A x \in AveragedTypes :
            IsRounded(calculateAveragePercentage(data, x),
                      100 * ExactCountOverQuestions(x),
                      Len(data) * Len(sortedQuestions))

\* an average that differs from the rounded mean of the rounded percentages
C24_Witness ==
    /\ Render.kind = "dashboard"
    /\ \E x \in AveragedTypes :
           ~IsRounded(calculateAveragePercentage(data, x),
                      Sum([i \in 1 .. Len(sortedQuestions) |->
                              RoundedPercentage(
                                  ExactCount(data, sortedQuestions[i], x),
                                  Len(data))]),
                      Len(sortedQuestions))

----------------------------------------------------------------------------
(* Properties of the loads of the dashboard                                *)

\* this step ends a load (a fetch leaves the flight)
LoadEnds == Len(fetching') < Len(fetching)

\* this step ends a load that yields nothing: a hard failure or zero records
LoadYieldsNothing ==
    /\ LoadEnds
    /\ fetched'.kind \in {"rejected", "notOk", "unparsable"}
          \/ fetched' = Json(<<>>)

\* C25: a load that fails or reads zero records leaves the held records, the
\* ranked question list and the executive summary as they were before it;
\* of the state of the component it changes the error and the loading and
\* switching flags only.
C25_FailedLoadWritesNothing ==
    [][LoadYieldsNothing =>
          /\ data' = data
          /\ sortedQuestions' = sortedQuestions
          /\ executiveSummary' = executiveSummary
          /\ selectedSurvey' = selectedSurvey
          /\ error' # NoError
          /\ ~loading' /\ ~isSwitching']_vars

\* a load failed after a switch, and the records, questions and summary of
\* the survey loaded before are still held
C25_Witness ==
    /\ HardFailure
    /\ selectedSurvey = "closing"
    /\ data # <<>>
    /\ sortedQuestions # <<>>
    /\ executiveSummary # NullSummary
    /\ error = "Failed to load data"

\* the dashboard is idle: not loading, not switching, no error, summary present
Idle ==
    /\ ~loading
    /\ ~isSwitching
    /\ error = NoError
    /\ executiveSummary # NullSummary

\* C26: at most one load is in flight or about to start at any time; the
\* selected survey changes only in a step taken while the switching flag is
\* false and no load is in flight; and whenever the dashboard is idle, the
\* held records, ranked questions and summary are those read by the load of
\* the currently selected survey.
C26_OneLoadAtATime ==
    /\ [](Len(fetching) + (IF effectPending THEN 1 ELSE 0) <= 1)
    /\ [][selectedSurvey' # selectedSurvey =>
              ~isSwitching /\ fetching = <<>> /\ ~effectPending]_vars
    /\ [](Idle => /\ loadedSurvey = selectedSurvey
                  /\ Loaded
                  /\ data = fetched.body
                  /\ fetching = <<>> /\ ~effectPending)

\* the load of the second survey is in flight after a switch; the records
\* of the first survey are held meanwhile and the button is disabled
C26_Witness ==
    /\ fetching = <<"closing">>
    /\ selectedSurvey = "closing"
    /\ isSwitching
    /\ loadedSurvey = "opening"
    /\ data # <<>>
    /\ Render.kind = "dashboard"
    /\ ~CanSwitch

\* C27: every load that is started finishes: a fetch in flight leads to a
\* state without a fetch in flight where the loading flag and the switching
\* flag are false; and every step that ends a load leaves both flags false,
\* whatever the fetch came back with.
C27_EveryLoadFinishes ==
    /\ (fetching # <<>>) ~> (fetching = <<>> /\ ~loading /\ ~isSwitching)
    /\ [][LoadEnds => ~loading' /\ ~isSwitching']_vars

\* the first load came back not OK and has finished
C27_Witness ==
    /\ fetched = NotOk
    /\ fetching = <<>>
    /\ ~loading
    /\ ~isSwitching
    /\ loadedSurvey = NoParam

\* C28: once the error is set it stays as it is; while it is set, the error
\* alert is rendered in place of the dashboard and its selector, no load is
\* in flight or about to start, and no step changes the selected survey or
\* starts a load.
C28_ErrorIsAbsorbing ==
    /\ [][error # NoError => error' = error]_vars
    /\ [](error # NoError =>
              /\ Render = [kind |-> "alert", text |-> error]
              /\ ~CanSwitch
              /\ fetching = <<>>
              /\ ~effectPending)
    /\ [][error # NoError =>
              /\ selectedSurvey' = selectedSurvey
              /\ fetching' = fetching
              /\ effectPending' = effectPending]_vars

\* the error is all that keeps the selector from being rendered: records
\* and a summary are held, and nothing is loading or switching
C28_Witness ==
    /\ error = "No valid data found"
    /\ executiveSummary # NullSummary
    /\ ~loading
    /\ ~isSwitching
    /\ ~ENABLED NextDashboard

\* C29: whenever the dashboard body is rendered, records are held and a
\* column of the first of them is a question, so every average the render
\* computes has records and questions to divide by and is an integer
\* between 0 and 100.
C29_RenderedBodyHasQuestions ==
    Render.kind = "dashboard" =>
        /\ data # <<>>
        /\ \E j \in 1 .. Len(data[1]) :
               /\ MentionsAgreement(data[1][j].value)
               /\ ~ExcludedName(data[1][j].key)
        /\ sortedQuestions # <<>>
        /\ \A x \in AveragedTypes :
               /\ calculateAveragePercentage(data, x) # NaN
               /\ calculateAveragePercentage(data, x) \in 0 .. 100

\* the body is rendered over a single record whose questions split between
\* two answers: one average is 50, the average of an answer not given is 0
C29_Witness ==
    /\ Render.kind = "dashboard"
    /\ \E x \in AveragedTypes : calculateAveragePercentage(data, x) = 0
    /\ \E x \in AveragedTypes : calculateAveragePercentage(data, x) = 50
    /\ Len(data) = 1

\* C30: every record the normalizer returns has at least one value that is
\* not the empty string.
C30_EveryRecordHasAValue ==
    parseResult.kind = "ok" =>
        \A r \in 1 .. Len(parseResult.data) :
            \E i \in 1 .. Len(parseResult.data[r]) :
                parseResult.data[r][i].value # <<>>

============================================================================
